---- MODULE Spec2Model ----
(***************************************************************************)
(* Model of imp.py: the VPC import tool.  main() scaffolds two Terraform   *)
(* modules, discovers the supplied VPC ids, merges the discovery result    *)
(* into Child_Module/terraform.tfvars and drives terraform through         *)
(* init / import (per id) / plan / apply.                                  *)
(*                                                                         *)
(* Text is modelled structurally.  Tag keys and tag values are sequences   *)
(* of characters, because whether the written file can be read back        *)
(* depends on the characters they hold.  Python dicts are insertion        *)
(* ordered: a dict is a sequence of <<key, value>> pairs with distinct     *)
(* keys.                                                                   *)
(***************************************************************************)
EXTENDS Naturals, Sequences, FiniteSets

VARIABLES
    pc,                 \* position of main(): the statement about to run
    dirs,               \* module directories that exist on disk
    scaffold,           \* content of the five scaffold files, by path
    tfvars,             \* content of Child_Module/terraform.tfvars on disk
    vpc_ids,            \* the ids supplied to the run (main, lines 194-198)
    vpc_details,        \* dict built by fetch_vpc_details
    missing,            \* missing_vpcs computed by fetch_vpc_details
    existing_configs,   \* local dict of create_or_update_tfvars
    existing_vpc_ids,   \* local list of create_or_update_tfvars
    cfg_is_dict,        \* whether existing_configs is a dict at all
    k,                  \* position of the merge loop in vpc_details.items()
    i,                  \* position of the import loop in vpc_ids
    calls,              \* the terraform invocations made so far, in order
    exit_code,          \* the code the process exits with (0 unless exit(1) ran)
    written,            \* history: the paths this run has written
    tfvars0,            \* history: the variable file when the current call began
    prev,               \* history: the previous call of create_or_update_tfvars
    ncall               \* number of the current call of the function that a
                        \* specification calls repeatedly

vars == <<pc, dirs, scaffold, tfvars, vpc_ids, vpc_details, missing,
          existing_configs, existing_vpc_ids, cfg_is_dict, k, i, calls,
          exit_code, written, tfvars0, prev, ncall>>

-----------------------------------------------------------------------------
(* Bounds of the model *)

\* the longest list of ids supplied to a run, and so the largest discovery result
MaxSupplied == 2

\* how often the scaffold generator is called in a row
MaxGenerations == 2

-----------------------------------------------------------------------------
(* Insertion-ordered dicts *)

Range(s) == { s[j] : j \in 1..Len(s) }

Keys(d) == [ j \in 1..Len(d) |-> d[j][1] ]

KeySet(d) == { d[j][1] : j \in 1..Len(d) }

HasKey(d, key) == \E j \in 1..Len(d) : d[j][1] = key

Get(d, key) == d[CHOOSE j \in 1..Len(d) : d[j][1] = key][2]

\* d[key] = val: an existing key keeps its position, a new key goes last
Put(d, key, val) ==
    IF HasKey(d, key)
    THEN [ j \in 1..Len(d) |-> IF d[j][1] = key THEN <<key, val>> ELSE d[j] ]
    ELSE Append(d, <<key, val>>)

NoDup(s) == \A a, b \in 1..Len(s) : s[a] = s[b] => a = b

-----------------------------------------------------------------------------
(* Values of the program *)

Region == "us-east-1"

Ids == {"vpc-a", "vpc-b", "vpc-c"}

\* tag keys and values, as characters
KName == <<"N", "a", "m", "e">>
KEnv == <<"e", "n", "v">>
KSpaced == <<"m", "y", " ", "k">>
VProd == <<"p", "r", "o", "d">>
VDev == <<"d", "e", "v">>
VQuote == <<"5", "\"">>

\* the 4-tuple fetch_vpc_details stores per id (line 25)
Rec(cidr, tags, support, hostnames) == <<cidr, tags, support, hostnames>>

RecPlain == Rec("10.0.0.0/16", << <<KName, VProd>> >>, TRUE, FALSE)
RecBare == Rec("10.1.0.0/16", <<>>, FALSE, TRUE)
RecTwoTags == Rec("10.0.0.0/16", << <<KEnv, VDev>>, <<KName, VDev>> >>, TRUE, TRUE)
RecSpacedKey == Rec("10.2.0.0/16", << <<KSpaced, VProd>> >>, FALSE, FALSE)
RecQuoteVal == Rec("10.2.0.0/16", << <<KName, VQuote>> >>, TRUE, TRUE)

\* the dict create_or_update_tfvars stores per id (lines 138-143)
ConfigOf(rec) ==
    [cidr_block |-> rec[1],
     enable_dns_support |-> rec[3],
     enable_dns_hostnames |-> rec[4],
     tags |-> rec[2]]

-----------------------------------------------------------------------------
(* The variable file as text, and the HCL reader *)

\* str(b).lower()
PyBoolLower(b) == IF b THEN "true" ELSE "false"

\* the reader's value of the literals true and false
HclBool(word) == word = "true"

\* one block of imported_vpc_configs (lines 151-163); the tag lines are
\* emitted in the order of config['tags'].items(), keys unquoted
RenderBlock(vid, config) ==
    [vid |-> vid,
     cidr_block |-> config.cidr_block,
     enable_dns_support |-> PyBoolLower(config.enable_dns_support),
     enable_dns_hostnames |-> PyBoolLower(config.enable_dns_hostnames),
     tags |-> config.tags]

\* tfvars_content (lines 148-176): the blocks follow existing_configs.items()
Render(configs, ids, region) ==
    [kind |-> "text",
     aws_region |-> region,
     existing_vpc_ids |-> ids,
     blocks |-> [ j \in 1..Len(configs) |-> RenderBlock(configs[j][1], configs[j][2]) ]]

AbsentFile ==
    [kind |-> "absent", aws_region |-> "", existing_vpc_ids |-> <<>>, blocks |-> <<>>]

\* a file that is no HCL at all
GarbageFile ==
    [kind |-> "garbage", aws_region |-> "", existing_vpc_ids |-> <<>>, blocks |-> <<>>]

\* valid HCL in which imported_vpc_configs is a string, not a map
ScalarCfgFile ==
    [kind |-> "scalar_cfg", aws_region |-> Region, existing_vpc_ids |-> <<>>, blocks |-> <<>>]

Letters ==
    {"a", "b", "c", "d", "e", "f", "g", "h", "i", "j", "k", "l", "m",
     "n", "o", "p", "q", "r", "s", "t", "u", "v", "w", "x", "y", "z",
     "A", "B", "C", "D", "E", "F", "G", "H", "I", "J", "K", "L", "M",
     "N", "O", "P", "Q", "R", "S", "T", "U", "V", "W", "X", "Y", "Z"}

Digits == {"0", "1", "2", "3", "4", "5", "6", "7", "8", "9"}

\* an unquoted attribute name the reader accepts
IsIdentifier(word) ==
    /\ Len(word) > 0
    /\ word[1] \in Letters \cup {"_"}
    /\ \A j \in 1..Len(word) : word[j] \in Letters \cup Digits \cup {"_", "-"}

\* text that stays one string literal when put between double quotes
IsQuotable(word) == \A j \in 1..Len(word) : word[j] \notin {"\"", "\\", "\n"}

\* a line `key = "value"` of a tags block (line 153) as the reader sees it
TagLineParses(line) == IsIdentifier(line[1]) /\ IsQuotable(line[2])

\* hcl2.loads succeeds on the text
Parses(file) ==
    /\ file.kind \in {"text", "scalar_cfg"}
    /\ \A j \in 1..Len(file.blocks) :
          \A t \in 1..Len(file.blocks[j].tags) : TagLineParses(file.blocks[j].tags[t])

\* the reader's value of one block
ParseBlock(block) ==
    [cidr_block |-> block.cidr_block,
     enable_dns_support |-> HclBool(block.enable_dns_support),
     enable_dns_hostnames |-> HclBool(block.enable_dns_hostnames),
     tags |-> block.tags]

\* the reader's value of imported_vpc_configs: a dict in block order
RECURSIVE ParseBlocks(_)
ParseBlocks(blocks) ==
    IF blocks = <<>>
    THEN <<>>
    ELSE LET n == Len(blocks)
         IN  Put(ParseBlocks(SubSeq(blocks, 1, n - 1)), blocks[n].vid, ParseBlock(blocks[n]))

\* read_existing_tfvars (lines 33-43): ({}, []) when the file is absent or
\* the reader raises, else the two attributes as the reader returns them
ReadExistingTfvars(file) ==
    IF file.kind # "absent" /\ Parses(file)
    THEN [configs |-> ParseBlocks(file.blocks),
          ids |-> file.existing_vpc_ids,
          is_dict |-> file.kind # "scalar_cfg"]
    ELSE [configs |-> <<>>, ids |-> <<>>, is_dict |-> TRUE]

-----------------------------------------------------------------------------
(* Inputs *)

\* every dict with exactly the keys idset and values among recs, in every order
DictsOver(idset, recs) ==
    { d \in [1..Cardinality(idset) -> idset \X recs] : KeySet(d) = idset }

\* the lists of ids a run may be given: not empty, no id twice
SuppliedLists ==
    { s \in UNION { [1..n -> Ids] : n \in 1..MaxSupplied } : NoDup(s) }

\* what the provider may know of a VPC in a run of main
DriverRecords == {RecPlain, RecBare}

\* what the provider may know of a VPC in a call of create_or_update_tfvars
MergeRecords == {RecPlain, RecBare, RecSpacedKey}

MergeResults ==
    UNION { DictsOver(S, MergeRecords) :
              S \in { T \in SUBSET Ids : Cardinality(T) \in 1..MaxSupplied } }

\* variable files an earlier run wrote
FileOne == Render(<< <<"vpc-a", ConfigOf(RecTwoTags)>> >>, <<"vpc-a">>, Region)
FileTwo ==
    Render(<< <<"vpc-b", ConfigOf(RecBare)>>, <<"vpc-a", ConfigOf(RecPlain)>> >>,
           <<"vpc-b", "vpc-a">>, Region)
FileQuoted == Render(<< <<"vpc-c", ConfigOf(RecQuoteVal)>> >>, <<"vpc-c">>, Region)

\* variable files edited by hand that the reader still accepts
FileIdsOnly == Render(<<>>, <<"vpc-c">>, Region)
FileDupIds ==
    Render(<< <<"vpc-a", ConfigOf(RecBare)>> >>, <<"vpc-a", "vpc-a">>, Region)
FileCfgOnly == Render(<< <<"vpc-b", ConfigOf(RecPlain)>> >>, <<>>, Region)
FileReordered ==
    Render(<< <<"vpc-a", ConfigOf(RecPlain)>>, <<"vpc-b", ConfigOf(RecBare)>> >>,
           <<"vpc-b", "vpc-a">>, Region)

PriorFiles ==
    {AbsentFile, GarbageFile, ScalarCfgFile, FileOne, FileTwo, FileQuoted,
     FileIdsOnly, FileDupIds, FileCfgOnly, FileReordered}

\* the prior files of the first of two calls of create_or_update_tfvars
MergePriorFiles ==
    {AbsentFile, GarbageFile, ScalarCfgFile, FileOne, FileTwo, FileIdsOnly, FileDupIds}

\* what a second call may be given besides the first call's own result
AgainResults ==
    UNION { DictsOver(S, DriverRecords) :
              S \in { T \in SUBSET Ids : Cardinality(T) \in 1..MaxSupplied } }

-----------------------------------------------------------------------------
(* The scaffold *)

ParentDir == "Parent_Module"
ChildDir == "Child_Module"
TfvarsPath == "Child_Module/terraform.tfvars"

ScaffoldPaths ==
    {"Parent_Module/main.tf", "Parent_Module/variables.tf",
     "Child_Module/main.tf", "Child_Module/variables.tf", "Child_Module/backend.tf"}

\* the static text create_terraform_files writes to each path
StaticScaffold ==
    [ p \in ScaffoldPaths |->
        CASE p = "Parent_Module/main.tf" -> "parent_main_tf"
          [] p = "Parent_Module/variables.tf" -> "parent_variables_tf"
          [] p = "Child_Module/main.tf" -> "child_main_tf"
          [] p = "Child_Module/variables.tf" -> "child_variables_tf"
          [] p = "Child_Module/backend.tf" -> "backend_tf" ]

NoScaffold == [ p \in ScaffoldPaths |-> "absent" ]

EditedScaffold ==
    [ p \in ScaffoldPaths |-> IF p = "Child_Module/main.tf" THEN "edited" ELSE StaticScaffold[p] ]

-----------------------------------------------------------------------------
(* Terraform invocations *)

ExitCodes == {0, 1}

Call(cmd, id, rc) == [cmd |-> cmd, id |-> id, rc |-> rc]

NoPrev == [done |-> FALSE, old |-> AbsentFile, details |-> <<>>, new |-> AbsentFile]

-----------------------------------------------------------------------------
(* main() *)

Init ==
    /\ pc = "mkdirs"
    /\ \E have \in BOOLEAN :
          /\ dirs = IF have THEN {ParentDir, ChildDir} ELSE {}
          /\ scaffold \in (IF have THEN {StaticScaffold, EditedScaffold} ELSE {NoScaffold})
          /\ tfvars \in (IF have THEN PriorFiles ELSE {AbsentFile})
    /\ vpc_ids \in SuppliedLists
    /\ vpc_details = <<>>
    /\ missing = {}
    /\ existing_configs = <<>>
    /\ existing_vpc_ids = <<>>
    /\ cfg_is_dict = TRUE
    /\ k = 1
    /\ i = 1
    /\ calls = <<>>
    /\ exit_code = 0
    /\ written = {}
    /\ tfvars0 = tfvars
    /\ prev = NoPrev
    /\ ncall = 1

\* Fatal with the exit call forgotten
FatalExitsZero ==
    /\ pc' = "error"
    /\ exit_code' = 0

\* the except clause of main (lines 243-245): print the error and exit(1)
Fatal ==
    /\ pc' = "error"
    /\ exit_code' = 1

\* create_directory_structure (lines 45-51, called at line 187)
CreateDirectoryStructure ==
    /\ pc = "mkdirs"
    /\ dirs' = dirs \cup {ParentDir, ChildDir}
    /\ pc' = "scaffold"
    /\ UNCHANGED <<scaffold, tfvars, vpc_ids, vpc_details, missing, existing_configs,
                   existing_vpc_ids, cfg_is_dict, k, i, calls, exit_code, written,
                   tfvars0, prev, ncall>>

\* CreateTerraformFiles opening the files in append mode
CreateTerraformFilesAppends ==
    /\ pc = "scaffold"
    /\ scaffold' = [ p \in ScaffoldPaths |->
                       IF scaffold[p] = "absent" THEN StaticScaffold[p] ELSE "appended" ]
    /\ written' = written \cup ScaffoldPaths
    /\ pc' = "fetch"
    /\ UNCHANGED <<dirs, tfvars, vpc_ids, vpc_details, missing, existing_configs,
                   existing_vpc_ids, cfg_is_dict, k, i, calls, exit_code,
                   tfvars0, prev, ncall>>

\* create_terraform_files (lines 53-127, called at line 190)
CreateTerraformFiles ==
    /\ pc = "scaffold"
    /\ scaffold' = StaticScaffold
    /\ written' = written \cup ScaffoldPaths
    /\ pc' = "fetch"
    /\ UNCHANGED <<dirs, tfvars, vpc_ids, vpc_details, missing, existing_configs,
                   existing_vpc_ids, cfg_is_dict, k, i, calls, exit_code,
                   tfvars0, prev, ncall>>

\* FetchVpcDetails raising only when the provider resolved nothing at all
FetchVpcDetailsAnyFound ==
    /\ pc = "fetch"
    /\ \E resolved \in SUBSET Range(vpc_ids) :
          \E d \in DictsOver(resolved, DriverRecords) :
             /\ vpc_details' = d
             /\ missing' = Range(vpc_ids) \ KeySet(d)
    /\ IF vpc_details' = <<>>
       THEN Fatal
       ELSE pc' = "read" /\ UNCHANGED exit_code
    /\ UNCHANGED <<dirs, scaffold, tfvars, vpc_ids, existing_configs, existing_vpc_ids,
                   cfg_is_dict, k, i, calls, written, tfvars0, prev, ncall>>

\* FetchVpcDetails computing missing_vpcs but never raising
FetchVpcDetailsNoRaise ==
    /\ pc = "fetch"
    /\ \E resolved \in SUBSET Range(vpc_ids) :
          \E d \in DictsOver(resolved, DriverRecords) :
             /\ vpc_details' = d
             /\ missing' = Range(vpc_ids) \ KeySet(d)
    /\ pc' = "read"
    /\ UNCHANGED <<dirs, scaffold, tfvars, vpc_ids, existing_configs, existing_vpc_ids,
                   cfg_is_dict, k, i, calls, exit_code, written, tfvars0, prev, ncall>>

\* fetch_vpc_details (lines 7-31, called at line 203): the provider answers
\* for some of the requested ids, in an order of its own
FetchVpcDetails ==
    /\ pc = "fetch"
    /\ \E resolved \in SUBSET Range(vpc_ids) :
          \E d \in DictsOver(resolved, DriverRecords) :
             /\ vpc_details' = d
             /\ missing' = Range(vpc_ids) \ KeySet(d)
    /\ IF missing' # {}
       THEN Fatal
       ELSE pc' = "read" /\ UNCHANGED exit_code
    /\ UNCHANGED <<dirs, scaffold, tfvars, vpc_ids, existing_configs, existing_vpc_ids,
                   cfg_is_dict, k, i, calls, written, tfvars0, prev, ncall>>

\* create_or_update_tfvars, line 134
ReadTfvars ==
    /\ pc = "read"
    /\ LET got == ReadExistingTfvars(tfvars)
       IN  /\ existing_configs' = got.configs
           /\ existing_vpc_ids' = got.ids
           /\ cfg_is_dict' = got.is_dict
    /\ k' = 1
    /\ pc' = IF Len(vpc_details) = 0 THEN "write" ELSE "merge"
    /\ UNCHANGED <<dirs, scaffold, tfvars, vpc_ids, vpc_details, missing, i, calls,
                   exit_code, written, tfvars0, prev, ncall>>

\* AppendIfNew putting a new id first instead of last
PrependIfNew(ids, vid) == IF vid \in Range(ids) THEN ids ELSE <<vid>> \o ids

\* the list after `if vpc_id not in existing_vpc_ids: append` (lines 144-145)
AppendIfNew(ids, vid) == IF vid \in Range(ids) THEN ids ELSE Append(ids, vid)

\* MergeStep updating a known id field by field and leaving its tags alone
MergeStepKeepsTags ==
    /\ pc = "merge"
    /\ IF cfg_is_dict
       THEN /\ LET vid == vpc_details[k][1]
                   new == ConfigOf(vpc_details[k][2])
               IN  existing_configs' =
                      Put(existing_configs, vid,
                          IF HasKey(existing_configs, vid)
                          THEN [new EXCEPT !.tags = Get(existing_configs, vid).tags]
                          ELSE new)
            /\ existing_vpc_ids' = AppendIfNew(existing_vpc_ids, vpc_details[k][1])
            /\ k' = k + 1
            /\ pc' = IF k = Len(vpc_details) THEN "write" ELSE "merge"
            /\ UNCHANGED exit_code
       ELSE /\ Fatal
            /\ UNCHANGED <<existing_configs, existing_vpc_ids, k>>
    /\ UNCHANGED <<dirs, scaffold, tfvars, vpc_ids, vpc_details, missing, cfg_is_dict,
                   i, calls, written, tfvars0, prev, ncall>>

\* create_or_update_tfvars, one pass of the loop of lines 137-145; assigning
\* an item of something that is no dict raises
MergeStep ==
    /\ pc = "merge"
    /\ IF cfg_is_dict
       THEN /\ existing_configs' =
                  Put(existing_configs, vpc_details[k][1], ConfigOf(vpc_details[k][2]))
            /\ existing_vpc_ids' = AppendIfNew(existing_vpc_ids, vpc_details[k][1])
            /\ k' = k + 1
            /\ pc' = IF k = Len(vpc_details) THEN "write" ELSE "merge"
            /\ UNCHANGED exit_code
       ELSE /\ Fatal
            /\ UNCHANGED <<existing_configs, existing_vpc_ids, k>>
    /\ UNCHANGED <<dirs, scaffold, tfvars, vpc_ids, vpc_details, missing, cfg_is_dict,
                   i, calls, written, tfvars0, prev, ncall>>

\* create_or_update_tfvars, lines 147-179: render and overwrite the file
WriteTfvars ==
    /\ pc = "write"
    /\ tfvars' = Render(existing_configs, existing_vpc_ids, Region)
    /\ written' = written \cup {TfvarsPath}
    /\ pc' = "init"
    /\ UNCHANGED <<dirs, scaffold, vpc_ids, vpc_details, missing, existing_configs,
                   existing_vpc_ids, cfg_is_dict, k, i, calls, exit_code,
                   tfvars0, prev, ncall>>

\* TerraformInit without check=True
TerraformInitUnchecked ==
    /\ pc = "init"
    /\ \E rc \in ExitCodes : calls' = Append(calls, Call("init", "", rc))
    /\ pc' = "import"
    /\ i' = 1
    /\ UNCHANGED <<dirs, scaffold, tfvars, vpc_ids, vpc_details, missing, existing_configs,
                   existing_vpc_ids, cfg_is_dict, k, exit_code, written, tfvars0, prev,
                   ncall>>

\* terraform init (line 217): check=True raises on a non-zero exit
TerraformInit ==
    /\ pc = "init"
    /\ \E rc \in ExitCodes :
          /\ calls' = Append(calls, Call("init", "", rc))
          /\ IF rc # 0
             THEN Fatal
             ELSE pc' = "import" /\ UNCHANGED exit_code
    /\ i' = 1
    /\ UNCHANGED <<dirs, scaffold, tfvars, vpc_ids, vpc_details, missing, existing_configs,
                   existing_vpc_ids, cfg_is_dict, k, written, tfvars0, prev, ncall>>

\* TerraformImport whose loop does not advance
TerraformImportStuck ==
    /\ pc = "import"
    /\ i <= Len(vpc_ids)
    /\ \E rc \in ExitCodes : calls' = Append(calls, Call("import", vpc_ids[i], rc))
    /\ UNCHANGED <<pc, dirs, scaffold, tfvars, vpc_ids, vpc_details, missing,
                   existing_configs, existing_vpc_ids, cfg_is_dict, k, i, exit_code,
                   written, tfvars0, prev, ncall>>

\* TerraformImport looping over the store's id list instead of vpc_ids
TerraformImportStoreOrder ==
    /\ pc = "import"
    /\ i <= Len(vpc_ids)
    /\ \E rc \in ExitCodes :
          calls' = Append(calls, Call("import", existing_vpc_ids[i], rc))
    /\ i' = i + 1
    /\ UNCHANGED <<pc, dirs, scaffold, tfvars, vpc_ids, vpc_details, missing,
                   existing_configs, existing_vpc_ids, cfg_is_dict, k, exit_code,
                   written, tfvars0, prev, ncall>>

\* TerraformImport with check=True, as the other three invocations have
TerraformImportChecked ==
    /\ pc = "import"
    /\ i <= Len(vpc_ids)
    /\ \E rc \in ExitCodes :
          /\ calls' = Append(calls, Call("import", vpc_ids[i], rc))
          /\ IF rc # 0
             THEN Fatal
             ELSE UNCHANGED <<pc, exit_code>>
    /\ i' = i + 1
    /\ UNCHANGED <<dirs, scaffold, tfvars, vpc_ids, vpc_details, missing,
                   existing_configs, existing_vpc_ids, cfg_is_dict, k,
                   written, tfvars0, prev, ncall>>

\* one pass of the import loop (lines 220-232): the exit code is only printed
TerraformImport ==
    /\ pc = "import"
    /\ i <= Len(vpc_ids)
    /\ \E rc \in ExitCodes : calls' = Append(calls, Call("import", vpc_ids[i], rc))
    /\ i' = i + 1
    /\ UNCHANGED <<pc, dirs, scaffold, tfvars, vpc_ids, vpc_details, missing,
                   existing_configs, existing_vpc_ids, cfg_is_dict, k, exit_code,
                   written, tfvars0, prev, ncall>>

\* TerraformPlan placed inside the import loop: it may run before the loop ends
TerraformPlanEarly ==
    /\ pc = "import"
    /\ \E rc \in ExitCodes :
          /\ calls' = Append(calls, Call("plan", "", rc))
          /\ IF rc # 0
             THEN Fatal
             ELSE pc' = "apply" /\ UNCHANGED exit_code
    /\ UNCHANGED <<dirs, scaffold, tfvars, vpc_ids, vpc_details, missing, existing_configs,
                   existing_vpc_ids, cfg_is_dict, k, i, written, tfvars0, prev, ncall>>

\* terraform plan (line 236), reached when the import loop is exhausted
TerraformPlan ==
    /\ pc = "import"
    /\ i > Len(vpc_ids)
    /\ \E rc \in ExitCodes :
          /\ calls' = Append(calls, Call("plan", "", rc))
          /\ IF rc # 0
             THEN Fatal
             ELSE pc' = "apply" /\ UNCHANGED exit_code
    /\ UNCHANGED <<dirs, scaffold, tfvars, vpc_ids, vpc_details, missing, existing_configs,
                   existing_vpc_ids, cfg_is_dict, k, i, written, tfvars0, prev, ncall>>

\* TerraformApply restoring the prior variable file when apply fails
TerraformApplyRollsBack ==
    /\ pc = "apply"
    /\ \E rc \in ExitCodes :
          /\ calls' = Append(calls, Call("apply", "", rc))
          /\ IF rc # 0
             THEN Fatal /\ tfvars' = tfvars0
             ELSE pc' = "done" /\ UNCHANGED <<exit_code, tfvars>>
    /\ UNCHANGED <<dirs, scaffold, vpc_ids, vpc_details, missing, existing_configs,
                   existing_vpc_ids, cfg_is_dict, k, i, written, tfvars0, prev, ncall>>

\* terraform apply -auto-approve (line 239), then main returns
TerraformApply ==
    /\ pc = "apply"
    /\ \E rc \in ExitCodes :
          /\ calls' = Append(calls, Call("apply", "", rc))
          /\ IF rc # 0
             THEN Fatal
             ELSE pc' = "done" /\ UNCHANGED exit_code
    /\ UNCHANGED <<dirs, scaffold, tfvars, vpc_ids, vpc_details, missing, existing_configs,
                   existing_vpc_ids, cfg_is_dict, k, i, written, tfvars0, prev, ncall>>

Next ==
    \/ CreateDirectoryStructure
    \/ CreateTerraformFiles
    \/ FetchVpcDetails
    \/ ReadTfvars
    \/ MergeStep
    \/ WriteTfvars
    \/ TerraformInit
    \/ TerraformImport
    \/ TerraformPlan
    \/ TerraformApply

Spec == Init /\ [][Next]_vars

\* main is one thread and every external call returns: a run that can take
\* a step takes one
SpecFair == Spec /\ WF_vars(Next)

-----------------------------------------------------------------------------
(* create_or_update_tfvars on its own: two consecutive calls *)

InitMerge ==
    /\ pc = "read"
    /\ dirs = {ParentDir, ChildDir}
    /\ scaffold = StaticScaffold
    /\ tfvars \in MergePriorFiles
    /\ vpc_ids = <<>>
    /\ vpc_details \in MergeResults
    /\ missing = {}
    /\ existing_configs = <<>>
    /\ existing_vpc_ids = <<>>
    /\ cfg_is_dict = TRUE
    /\ k = 1
    /\ i = 1
    /\ calls = <<>>
    /\ exit_code = 0
    /\ written = {}
    /\ tfvars0 = tfvars
    /\ prev = NoPrev
    /\ ncall = 1

\* a later run calls create_or_update_tfvars on the file the first call wrote
CallAgain ==
    /\ pc = "init"
    /\ ncall = 1
    /\ ncall' = 2
    /\ prev' = [done |-> TRUE, old |-> tfvars0, details |-> vpc_details, new |-> tfvars]
    /\ tfvars0' = tfvars
    /\ vpc_details' \in {vpc_details} \cup AgainResults
    /\ pc' = "read"
    /\ UNCHANGED <<dirs, scaffold, tfvars, vpc_ids, missing, existing_configs,
                   existing_vpc_ids, cfg_is_dict, k, i, calls, exit_code, written>>

NextMerge ==
    \/ ReadTfvars
    \/ MergeStep
    \/ WriteTfvars
    \/ CallAgain

SpecMerge == InitMerge /\ [][NextMerge]_vars

-----------------------------------------------------------------------------
(* The scaffold generator on its own: called several times in a row *)

\* lines 187-190 run once more, on what the call before left on disk
GenerateAgain ==
    /\ pc = "fetch"
    /\ ncall < MaxGenerations
    /\ ncall' = ncall + 1
    /\ pc' = "mkdirs"
    /\ UNCHANGED <<dirs, scaffold, tfvars, vpc_ids, vpc_details, missing,
                   existing_configs, existing_vpc_ids, cfg_is_dict, k, i, calls,
                   exit_code, written, tfvars0, prev>>

NextScaffold ==
    \/ CreateDirectoryStructure
    \/ CreateTerraformFiles
    \/ GenerateAgain

SpecScaffold == Init /\ [][NextScaffold]_vars

-----------------------------------------------------------------------------
(* The provisioning driver: C1 - C5, under Spec *)

NumIds == Len(vpc_ids)

Last(s) == s[Len(s)]

Failed(cmd) == \E j \in 1..Len(calls) : calls[j].cmd = cmd /\ calls[j].rc # 0

Succeeded(cmd) == \E j \in 1..Len(calls) : calls[j].cmd = cmd /\ calls[j].rc = 0

Terminated == pc \in {"done", "error"}

\* C1: once init has succeeded, whatever the exit codes of the imports: the
\* j-th invocation after init is the import of the j-th supplied id, the run
\* stays in the import stage until every id was tried, plan is then invoked,
\* apply after a successful plan, and the run is never in ERROR unless plan
\* or apply failed.
C1_ImportFailureDoesNotAbort ==
    (Len(calls) >= 1 /\ calls[1].cmd = "init" /\ calls[1].rc = 0) =>
        /\ \A j \in 1..NumIds :
              Len(calls) >= j + 1 =>
                 calls[j + 1].cmd = "import" /\ calls[j + 1].id = vpc_ids[j]
        /\ Len(calls) <= NumIds => pc = "import" /\ ENABLED TerraformImport
        /\ Len(calls) = NumIds + 1 => pc = "import" /\ ENABLED TerraformPlan
        /\ (Len(calls) = NumIds + 2 /\ Last(calls).rc = 0) =>
              pc = "apply" /\ ENABLED TerraformApply
        /\ (pc = "error" \/ exit_code # 0) =>
              Last(calls).cmd \in {"plan", "apply"} /\ Last(calls).rc # 0

\* C1 witness: both imports failed and apply was still invoked
C1_Witness ==
    /\ Len(calls) = 5
    /\ calls[2].cmd = "import" /\ calls[2].rc # 0
    /\ calls[3].cmd = "import" /\ calls[3].rc # 0
    /\ calls[5].cmd = "apply"

\* C2: a non-zero exit of init, plan or apply is the last invocation of the
\* run, and the run is then in ERROR with exit code 1.
C2_StageFailureIsFatal ==
    \A j \in 1..Len(calls) :
        (calls[j].cmd \in {"init", "plan", "apply"} /\ calls[j].rc # 0) =>
            j = Len(calls) /\ pc = "error" /\ exit_code = 1

\* C2 witness: plan failed after both imports were tried
C2_Witness ==
    /\ Len(calls) = 4
    /\ calls[4].cmd = "plan" /\ calls[4].rc # 0

\* C3: the invocations of a run are a prefix of init, one import per supplied
\* id, plan, apply; an import only after a successful init, plan only after
\* every supplied id was tried, apply only after a successful plan, DONE
\* exactly after a successful apply; terraform is invoked only after the
\* variable file stage; ERROR after an invocation only after a failed init,
\* plan or apply.
C3_StageOrder ==
    /\ Len(calls) <= NumIds + 3
    /\ \A j \in 1..Len(calls) :
          calls[j].cmd = (IF j = 1 THEN "init"
                          ELSE IF j <= NumIds + 1 THEN "import"
                          ELSE IF j = NumIds + 2 THEN "plan"
                          ELSE "apply")
    /\ Len(calls) >= 2 => calls[1].rc = 0
    /\ Len(calls) >= NumIds + 2 =>
          \A id \in Range(vpc_ids) :
             \E j \in 2..(NumIds + 1) : calls[j].cmd = "import" /\ calls[j].id = id
    /\ Len(calls) = NumIds + 3 => calls[NumIds + 2].rc = 0
    /\ pc = "done" <=> (Len(calls) = NumIds + 3 /\ Last(calls).rc = 0)
    /\ calls # <<>> => pc \in {"import", "apply", "done", "error"}
    /\ (pc = "error" /\ calls # <<>>) =>
          Last(calls).cmd \in {"init", "plan", "apply"} /\ Last(calls).rc # 0

\* C3 witness: a run of two ids reached DONE
C3_Witness == pc = "done" /\ NumIds = 2 /\ Len(calls) = 5

\* C4: a run that has ended exits with 1 if discovery, init, plan or apply
\* failed and with 0 if all four succeeded, whatever the imports returned.
C4_ExitCode ==
    Terminated =>
        /\ (missing # {} \/ Failed("init") \/ Failed("plan") \/ Failed("apply")) =>
              exit_code = 1
        /\ (missing = {} /\ Succeeded("init") /\ Succeeded("plan") /\ Succeeded("apply")) =>
              exit_code = 0

\* C4 witness: every import failed and the run exited with 0
C4_Witness ==
    /\ pc = "done" /\ exit_code = 0
    /\ NumIds = 2
    /\ \A j \in 2..3 : calls[j].cmd = "import" /\ calls[j].rc # 0

\* C5: a run that ended on a discovery error has written no file under the
\* base path.
C5_DiscoveryErrorBeforeAnyWrite ==
    (pc = "error" /\ missing # {}) => written = {}

-----------------------------------------------------------------------------
(* The variable store: C6 - C10, under SpecMerge *)

\* the store that the current call loaded from the prior file
OldStore == ReadExistingTfvars(tfvars0)

\* the locals of create_or_update_tfvars hold the store of the current call
StoreLoaded == pc \in {"merge", "write", "init"}

Vids(file) == { file.blocks[j].vid : j \in 1..Len(file.blocks) }

BlockOf(file, vid) == file.blocks[CHOOSE j \in 1..Len(file.blocks) : file.blocks[j].vid = vid]

\* C6: after load, after every pass of the merge loop and in the file
\* written, the ids of the id list are exactly the keys of the mapping.
C6_LockStep ==
    /\ StoreLoaded => Range(existing_vpc_ids) = KeySet(existing_configs)
    /\ TfvarsPath \in written => Range(tfvars.existing_vpc_ids) = Vids(tfvars)

\* C7: the file written holds one block per id of the loaded store and of the
\* discovery result and no other; the block of a discovered id has exactly the
\* discovered cidr, flags and tags; the block of any other id is the one the
\* prior file had; and when the prior file was read, every id the previous
\* call discovered is still there.
C7_LastWriteWinsUnion ==
    pc = "init" =>
        /\ tfvars.kind = "text"
        /\ Vids(tfvars) = KeySet(OldStore.configs) \cup KeySet(vpc_details)
        /\ Len(tfvars.blocks) = Cardinality(Vids(tfvars))
        /\ \A id \in KeySet(vpc_details) :
              LET b == BlockOf(tfvars, id)
                  r == Get(vpc_details, id)
              IN  /\ b.cidr_block = r[1]
                  /\ b.tags = r[2]
                  /\ (b.enable_dns_support = "true") = r[3]
                  /\ (b.enable_dns_support = "false") = ~r[3]
                  /\ (b.enable_dns_hostnames = "true") = r[4]
                  /\ (b.enable_dns_hostnames = "false") = ~r[4]
        /\ \A id \in KeySet(OldStore.configs) \ KeySet(vpc_details) :
              BlockOf(tfvars, id) = BlockOf(tfvars0, id)
        /\ (ncall = 2 /\ Parses(tfvars0)) => KeySet(prev.details) \subseteq Vids(tfvars)

\* C7 witness: of the prior ids vpc-b and vpc-a the second is discovered again
\* with every field changed, and vpc-c is discovered for the first time
C7_Witness ==
    /\ pc = "init"
    /\ tfvars0 = FileTwo
    /\ KeySet(vpc_details) = {"vpc-a", "vpc-c"}
    /\ Get(vpc_details, "vpc-a") = RecBare

\* C8: a second call with the same discovery result, reading the file the
\* first call wrote, writes the same id list and the same blocks.
C8_MergeIdempotent ==
    (pc = "init" /\ ncall = 2 /\ prev.details = vpc_details) =>
        /\ tfvars.existing_vpc_ids = prev.new.existing_vpc_ids
        /\ Range(tfvars.blocks) = Range(prev.new.blocks)

\* C9: at every pass of the merge loop and in the file written, the id list
\* starts with the loaded id list, and every id behind it is a new one.
C9_OrderPreserved ==
    StoreLoaded =>
        LET old == OldStore.ids
        IN  /\ Len(existing_vpc_ids) >= Len(old)
            /\ SubSeq(existing_vpc_ids, 1, Len(old)) = old
            /\ \A j \in (Len(old) + 1)..Len(existing_vpc_ids) :
                  existing_vpc_ids[j] \notin Range(old)
            /\ pc = "init" => tfvars.existing_vpc_ids = existing_vpc_ids

\* C9 witness: vpc-c is new and vpc-a, discovered after it, was already there
C9_Witness ==
    /\ pc = "init"
    /\ tfvars0 = FileTwo
    /\ Keys(vpc_details) = <<"vpc-c", "vpc-a">>
    /\ tfvars.existing_vpc_ids = <<"vpc-b", "vpc-a", "vpc-c">>

\* C10: the id list never holds an id twice, neither in memory after load
\* and during the merge nor in the file written.
C10_NoDuplicateIds ==
    /\ StoreLoaded => NoDup(existing_vpc_ids)
    /\ TfvarsPath \in written => NoDup(tfvars.existing_vpc_ids)

-----------------------------------------------------------------------------
(* The variable file as written and read back: C11 - C13 *)

\* the ids of the blocks of a file, in the order of the blocks
BlockOrder(file) == [ j \in 1..Len(file.blocks) |-> file.blocks[j].vid ]

\* C11: in the file written, the blocks of imported_vpc_configs come in the
\* order of existing_vpc_ids, one block per id of that list (stated for the
\* stores whose id list has no duplicate and has the keys of the mapping).
C11_BlocksFollowIdList ==
    (/\ TfvarsPath \in written
     /\ NoDup(existing_vpc_ids)
     /\ Range(existing_vpc_ids) = KeySet(existing_configs)) =>
        BlockOrder(tfvars) = tfvars.existing_vpc_ids

\* C12: reading back the file that was written gives the store that was
\* rendered: the same id list, the same keys, and per id the same cidr,
\* flags and tags.
C12_RoundTrip ==
    (pc = "init" /\ TfvarsPath \in written) =>
        LET back == ReadExistingTfvars(tfvars)
        IN  /\ back.ids = existing_vpc_ids
            /\ KeySet(back.configs) = KeySet(existing_configs)
            /\ \A id \in KeySet(existing_configs) :
                  Get(back.configs, id) = Get(existing_configs, id)

\* the prior file is absent or does not hold the two blocks as a list and a map
PriorUnusable ==
    tfvars0.kind \in {"absent", "garbage", "scalar_cfg"} \/ ~Parses(tfvars0)

\* C13: when the prior file is absent or unusable and discovery succeeded,
\* the merge starts from the empty store, the run does not end in ERROR
\* before terraform is invoked, and the file written holds exactly the
\* discovered records.
C13_LoadNeverFails ==
    (/\ PriorUnusable
     /\ pc \in {"merge", "write", "init", "import", "apply", "done", "error"}
     /\ missing = {}) =>
        /\ (pc = "merge" /\ k = 1) =>
              existing_configs = <<>> /\ existing_vpc_ids = <<>> /\ cfg_is_dict
        /\ pc = "error" => calls # <<>>
        /\ TfvarsPath \in written =>
              /\ tfvars.existing_vpc_ids = Keys(vpc_details)
              /\ BlockOrder(tfvars) = Keys(vpc_details)
              /\ \A j \in 1..Len(vpc_details) :
                    /\ tfvars.blocks[j].cidr_block = vpc_details[j][2][1]
                    /\ tfvars.blocks[j].tags = vpc_details[j][2][2]
                    /\ (tfvars.blocks[j].enable_dns_support = "true") = vpc_details[j][2][3]
                    /\ (tfvars.blocks[j].enable_dns_hostnames = "true") = vpc_details[j][2][4]

-----------------------------------------------------------------------------
(* Discovery and the order of the run: C14 - C19 *)

\* C16 (under SpecScaffold): after every call of the generator, the first or
\* a later one, both module directories exist and the five files hold the
\* fixed texts, whatever the variable file holds; and the generator neither
\* writes nor changes the variable file.
C16_ScaffoldIdempotent ==
    /\ pc = "fetch" =>
          /\ {ParentDir, ChildDir} \subseteq dirs
          /\ scaffold = StaticScaffold
    /\ tfvars = tfvars0
    /\ TfvarsPath \notin written

\* C16 witness: the generator has run twice beside a variable file of two entries
C16_Witness ==
    /\ pc = "fetch"
    /\ ncall = 2
    /\ tfvars = FileTwo

PastFetch == pc \notin {"mkdirs", "scaffold", "fetch"}

\* fetch_vpc_details raised: the run ended before the variable file was read
\* (the only other error before terraform is invoked leaves cfg_is_dict false)
DiscoveryRaised == pc = "error" /\ calls = <<>> /\ cfg_is_dict

\* C14: discovery raises exactly when the resolved ids are a strict subset of
\* the requested ids, and missing_vpcs, which the message names, is then
\* the requested ids that were not resolved; otherwise the dict returned has
\* exactly the requested ids as keys, one record each.
C14_DiscoveryFailsOnMissing ==
    PastFetch =>
        /\ KeySet(vpc_details) \subseteq Range(vpc_ids)
        /\ DiscoveryRaised <=> KeySet(vpc_details) # Range(vpc_ids)
        /\ DiscoveryRaised =>
              /\ missing # {}
              /\ missing = Range(vpc_ids) \ KeySet(vpc_details)
              /\ missing \cap KeySet(vpc_details) = {}
        /\ ~DiscoveryRaised =>
              /\ missing = {}
              /\ KeySet(vpc_details) = Range(vpc_ids)
              /\ Len(vpc_details) = Cardinality(Range(vpc_ids))

\* C14 witness: of two requested ids only the first was resolved
C14_Witness ==
    /\ DiscoveryRaised
    /\ NumIds = 2
    /\ KeySet(vpc_details) = {vpc_ids[1]}
    /\ missing = {vpc_ids[2]}

IsImport(call) == call.cmd = "import"

\* the ids imported so far, in the order of the invocations
ImportedIds ==
    LET imports == SelectSeq(calls, IsImport)
    IN  [ j \in 1..Len(imports) |-> imports[j].id ]

\* C15: the ids imported so far are the first of the supplied ids, in the
\* order supplied, each once; all of them once plan is invoked; none unless
\* init succeeded; and never an id that was not supplied.
C15_ImportsFollowSuppliedOrder ==
    /\ Len(ImportedIds) <= NumIds
    /\ ImportedIds = SubSeq(vpc_ids, 1, Len(ImportedIds))
    /\ NoDup(ImportedIds)
    /\ ImportedIds # <<>> => Succeeded("init")
    /\ (\E j \in 1..Len(calls) : calls[j].cmd = "plan") => ImportedIds = vpc_ids
    /\ Range(ImportedIds) \subseteq Range(vpc_ids)

\* C15 witness: the store lists vpc-b, vpc-a, vpc-c; the run was given vpc-c,
\* vpc-a and imported those two in that order
C15_Witness ==
    /\ pc = "apply"
    /\ tfvars0 = FileTwo
    /\ vpc_ids = <<"vpc-c", "vpc-a">>
    /\ existing_vpc_ids = <<"vpc-b", "vpc-a", "vpc-c">>
    /\ ImportedIds = <<"vpc-c", "vpc-a">>

\* C17: when some requested id was not resolved, the run is in ERROR, the
\* variable file is the one the run found (same presence, same content) and
\* the run has not written it; terraform was not invoked.
C17_DiscoveryFailureKeepsFile ==
    (PastFetch /\ missing # {}) =>
        /\ pc = "error"
        /\ tfvars = tfvars0
        /\ TfvarsPath \notin written
        /\ calls = <<>>

\* C17 witness: discovery failed in a run that found a file of two entries
C17_Witness ==
    /\ DiscoveryRaised
    /\ missing # {}
    /\ tfvars0 = FileTwo

BeforeWrite == pc \in {"mkdirs", "scaffold", "fetch", "read", "merge", "write"}

\* C18: until the write the variable file is the one the run found; once
\* terraform has been invoked the merged store is on disk; the file changes
\* only in the step of the write, which is taken once, before init; and from
\* init on, whatever the stages return, the file stays as written.
C18_WrittenOnceBeforeInit ==
    /\ [](BeforeWrite => tfvars = tfvars0 /\ TfvarsPath \notin written /\ calls = <<>>)
    /\ [](calls # <<>> =>
             /\ TfvarsPath \in written
             /\ tfvars.kind = "text"
             /\ tfvars.existing_vpc_ids = existing_vpc_ids
             /\ KeySet(vpc_details) \subseteq Vids(tfvars))
    /\ [][(tfvars' # tfvars \/ TfvarsPath \in written' \ written) =>
             (pc = "write" /\ pc' = "init" /\ calls' = <<>>)]_vars
    /\ [][~BeforeWrite => (tfvars' = tfvars /\ ~BeforeWrite')]_vars

\* C18 witness: apply failed and the merged file, not the prior one, is on disk
C18_Witness ==
    /\ pc = "error"
    /\ Failed("apply")
    /\ TfvarsPath \in written
    /\ tfvars # tfvars0

StageRank(p) ==
    CASE p = "mkdirs" -> 1
      [] p = "scaffold" -> 2
      [] p = "fetch" -> 3
      [] p = "read" -> 4
      [] p = "merge" -> 5
      [] p = "write" -> 6
      [] p = "init" -> 7
      [] p = "import" -> 8
      [] p = "apply" -> 9
      [] p \in {"done", "error"} -> 10

\* C19 (under SpecFair): every run ends, in DONE with exit code 0 or in ERROR
\* with exit code 1; no more ids are imported than were supplied; and every
\* step either moves to a later stage or advances one of the two loops.
C19_Terminates ==
    /\ <>Terminated
    /\ [](Terminated => (pc = "done" /\ exit_code = 0) \/ (pc = "error" /\ exit_code = 1))
    /\ [](Len(ImportedIds) <= NumIds)
    /\ [][\/ StageRank(pc') > StageRank(pc)
          \/ pc = "import" /\ pc' = "import" /\ i <= NumIds /\ i' = i + 1
          \/ pc = "merge" /\ pc' = "merge" /\ k < Len(vpc_details) /\ k' = k + 1]_vars

\* C19 witness: a run of two ids has ended in DONE after five invocations
C19_Witness ==
    /\ Terminated
    /\ exit_code = 0
    /\ Len(ImportedIds) = 2
    /\ Len(calls) = 5

====
